---- MODULE Spec2Model ----
(***************************************************************************)
(* Drug Query Tool (Agent-GRID): the query understanding functions         *)
(* (extractEntities, extractIntent, getEnhancedMockData), the query form   *)
(* and the Home pages that run a query and show its outcome.               *)
(*                                                                         *)
(* Texts are TLA+ strings.  JavaScript numbers with two decimals are       *)
(* integers in hundredths (0.95 is 95, 0.8 is 80).  A JavaScript object is *)
(* a function whose DOMAIN is the set of its keys; an array is a sequence. *)
(***************************************************************************)
EXTENDS Integers, Sequences, FiniteSets, TLC

VARIABLES
    query,              \* the form's textarea value / the text under analysis
    parsed,             \* result of running the two extractors on query
    selectedDatabases,  \* the form's selected databases, in selection order
    results,            \* Home: results
    loading,            \* Home: loading
    error,              \* Home: error, <<>> for null, else <<the message>>
    queryInfo,          \* Home: queryInfo, <<>> for null, else <<the object>>
    showSynonymPrompt,  \* Home: showSynonymPrompt
    synonymOptions,     \* Home: synonymOptions
    pending,            \* the handleQuery call suspended at its await:
                        \* <<>> when none, else <<its arguments>>
    lastOp,             \* the handler that ran last
    rendered,           \* the rendered results table, <<>> before it is rendered
    csv,                \* the text of the exported file, <<>> when none
    activeChart         \* Visualizations: activeChart, <<>> while the component
                        \* is not mounted, else <<the chart type>>

vars == <<query, parsed, selectedDatabases, results, loading, error, queryInfo,
          showSynonymPrompt, synonymOptions, pending, lastOp, rendered, csv,
          activeChart>>

Null == "null"

-----------------------------------------------------------------------------
(* Bounds of the model *)

\* number of words of a generated query text
MaxWords == 2

\* number of the available databases, counted from the first, that the user
\* selects and deselects one by one
MaxDatabases == 2

\* number of entities in the resolved_entities of a backend response
MaxEntities == 2

\* records of a table
MaxRows == 2

-----------------------------------------------------------------------------
(* String primitives of JavaScript used by the code *)

\* the letters that occur in upper case in the model's texts
LowerChar(c) ==
    CASE c = "A" -> "a" [] c = "B" -> "b" [] c = "C" -> "c" [] c = "D" -> "d"
      [] c = "E" -> "e" [] c = "G" -> "g" [] c = "H" -> "h" [] c = "I" -> "i"
      [] c = "J" -> "j" [] c = "K" -> "k" [] c = "L" -> "l" [] c = "M" -> "m"
      [] c = "P" -> "p" [] c = "R" -> "r" [] c = "S" -> "s" [] c = "T" -> "t"
      [] OTHER -> c

RECURSIVE toLowerCase(_)
toLowerCase(s) ==
    IF s = "" THEN ""
    ELSE LowerChar(SubSeq(s, 1, 1)) \o toLowerCase(SubSeq(s, 2, Len(s)))

\* String.prototype.includes
includes(s, k) ==
    \E i \in 1..(Len(s) - Len(k) + 1) : SubSeq(s, i, i + Len(k) - 1) = k

IsWhitespace(c) == c \in {" ", "\t", "\n"}

RECURSIVE TrimStart(_)
TrimStart(s) ==
    IF s # "" /\ IsWhitespace(SubSeq(s, 1, 1))
    THEN TrimStart(SubSeq(s, 2, Len(s))) ELSE s

RECURSIVE TrimEnd(_)
TrimEnd(s) ==
    IF s # "" /\ IsWhitespace(SubSeq(s, Len(s), Len(s)))
    THEN TrimEnd(SubSeq(s, 1, Len(s) - 1)) ELSE s

\* String.prototype.trim
trim(s) == TrimEnd(TrimStart(s))

\* Array.prototype.join
RECURSIVE join(_, _)
join(arr, sep) ==
    IF Len(arr) = 0 THEN ""
    ELSE IF Len(arr) = 1 THEN arr[1]
    ELSE arr[1] \o sep \o join(Tail(arr), sep)

\* Array.prototype.includes, on a sequence
ArrIncludes(arr, x) == \E i \in 1..Len(arr) : arr[i] = x

\* the object with no keys
EmptyObject == [k \in {} |-> Null]

-----------------------------------------------------------------------------
(* Synonym tables, in the key order Object.entries yields *)

DRUG_SYNONYMS == <<
    [name |-> "imatinib",
     synonyms |-> <<"gleevec", "sti571", "imatinib mesylate">>,
     chembl_id |-> "CHEMBL941", pubchem_id |-> "CID5291"],
    [name |-> "rituximab",
     synonyms |-> <<"rituxan", "mabthera">>,
     chembl_id |-> "CHEMBL1201576", pubchem_id |-> "CID387447"],
    [name |-> "dasatinib",
     synonyms |-> <<"sprycel", "bms-354825">>,
     chembl_id |-> "CHEMBL1421", pubchem_id |-> "CID3062316"] >>

TARGET_SYNONYMS == <<
    [name |-> "jak2",
     synonyms |-> <<"janus kinase 2", "jak-2">>,
     ensembl_id |-> "ENSG00000096968", uniprot_id |-> "P52333"],
    [name |-> "tp53",
     synonyms |-> <<"tumor protein p53", "p53">>,
     ensembl_id |-> "ENSG00000141510", uniprot_id |-> "P04637"] >>

DISEASE_SYNONYMS == <<
    [name |-> "breast cancer",
     synonyms |-> <<"mammary cancer", "breast carcinoma">>,
     efo_id |-> "EFO_0000305", mondo_id |-> "MONDO_0007254"],
    [name |-> "alopecia",
     synonyms |-> <<"hair loss", "baldness">>,
     efo_id |-> "EFO_0000756", mondo_id |-> "MONDO_0000001"] >>

-----------------------------------------------------------------------------
(* extractEntities *)

\* the loop condition: the lowercased text holds the name or some synonym
EntryMatches(queryLower, entry) ==
    \/ includes(queryLower, entry.name)
    \/ \E i \in 1..Len(entry.synonyms) : includes(queryLower, entry.synonyms[i])

\* the entry at which the for loop breaks: the first that matches, 0 if none
FirstMatch(queryLower, table) ==
    IF \E i \in 1..Len(table) : EntryMatches(queryLower, table[i])
    THEN CHOOSE i \in 1..Len(table) :
            /\ EntryMatches(queryLower, table[i])
            /\ \A j \in 1..(i - 1) : ~EntryMatches(queryLower, table[j])
    ELSE 0

\* 0.95, the confidence given to every match
MatchConfidence == 95

IsDigit(c) == c \in {"0", "1", "2", "3", "4", "5", "6", "7", "8", "9"}

\* [-\s]* : the first position at or after i that holds no hyphen or whitespace
RECURSIVE SkipSeparators(_, _)
SkipSeparators(s, i) ==
    IF i <= Len(s) /\ (SubSeq(s, i, i) = "-" \/ IsWhitespace(SubSeq(s, i, i)))
    THEN SkipSeparators(s, i + 1) ELSE i

\* (\d+) : the first position at or after i that holds no digit
RECURSIVE SkipDigits(_, _)
SkipDigits(s, i) ==
    IF i <= Len(s) /\ IsDigit(SubSeq(s, i, i))
    THEN SkipDigits(s, i + 1) ELSE i

\* the match of /phase[-\s]*(\d+)|approved|preclinical/ that starts at i:
\* <<whole match, group 1>>, group 1 being "" when it did not take part;
\* <<>> when nothing matches at i
PhaseMatchAt(s, i) ==
    LET j == SkipSeparators(s, i + 5)
        k == SkipDigits(s, j)
    IN  IF i + 4 <= Len(s) /\ SubSeq(s, i, i + 4) = "phase" /\ k > j
        THEN <<SubSeq(s, i, k - 1), SubSeq(s, j, k - 1)>>
        ELSE IF i + 7 <= Len(s) /\ SubSeq(s, i, i + 7) = "approved"
        THEN <<"approved", "">>
        ELSE IF i + 10 <= Len(s) /\ SubSeq(s, i, i + 10) = "preclinical"
        THEN <<"preclinical", "">>
        ELSE <<>>

\* String.prototype.match without the g flag: the leftmost match, <<>> if none
PhaseMatch(s) ==
    IF \E i \in 1..Len(s) : PhaseMatchAt(s, i) # <<>>
    THEN PhaseMatchAt(s, CHOOSE i \in 1..Len(s) :
            /\ PhaseMatchAt(s, i) # <<>>
            /\ \A j \in 1..(i - 1) : PhaseMatchAt(s, j) = <<>>)
    ELSE <<>>

DrugEntity(queryLower) ==
    LET i == FirstMatch(queryLower, DRUG_SYNONYMS)
    IN  IF i = 0 THEN EmptyObject
        ELSE [drug |-> [name |-> DRUG_SYNONYMS[i].name,
                        chembl_id |-> DRUG_SYNONYMS[i].chembl_id,
                        synonyms |-> DRUG_SYNONYMS[i].synonyms,
                        confidence |-> MatchConfidence]]

TargetEntity(queryLower) ==
    LET i == FirstMatch(queryLower, TARGET_SYNONYMS)
    IN  IF i = 0 THEN EmptyObject
        ELSE [target |-> [name |-> TARGET_SYNONYMS[i].name,
                          ensembl_id |-> TARGET_SYNONYMS[i].ensembl_id,
                          synonyms |-> TARGET_SYNONYMS[i].synonyms,
                          confidence |-> MatchConfidence]]

DiseaseEntity(queryLower) ==
    LET i == FirstMatch(queryLower, DISEASE_SYNONYMS)
    IN  IF i = 0 THEN EmptyObject
        ELSE [disease |-> [name |-> DISEASE_SYNONYMS[i].name,
                           efo_id |-> DISEASE_SYNONYMS[i].efo_id,
                           synonyms |-> DISEASE_SYNONYMS[i].synonyms,
                           confidence |-> MatchConfidence]]

PhaseEntityPlaceholder(queryLower) ==
    LET m == PhaseMatch(queryLower)
    IN  IF m = <<>> THEN [phase |-> ""]
        ELSE [phase |-> IF m[2] # "" THEN m[2] ELSE m[1]]

PhaseEntityWholeMatch(queryLower) ==
    LET m == PhaseMatch(queryLower)
    IN  IF m = <<>> THEN EmptyObject ELSE [phase |-> m[1]]

\* entities.phase = phaseMatch[1] || phaseMatch[0], only when there is a match
PhaseEntity(queryLower) ==
    LET m == PhaseMatch(queryLower)
    IN  IF m = <<>> THEN EmptyObject
        ELSE [phase |-> IF m[2] # "" THEN m[2] ELSE m[1]]

extractEntities(q) ==
    LET queryLower == toLowerCase(q)
    IN  DrugEntity(queryLower) @@ TargetEntity(queryLower)
        @@ DiseaseEntity(queryLower) @@ PhaseEntity(queryLower)

-----------------------------------------------------------------------------
(* extractIntent *)

extractIntentDiseaseFirst(q) ==
    LET queryLower == toLowerCase(q)
    IN  IF includes(queryLower, "disease") \/ includes(queryLower, "condition")
        THEN "list_diseases"
        ELSE IF includes(queryLower, "toxicit") \/ includes(queryLower, "adverse")
        THEN "list_toxicities"
        ELSE IF includes(queryLower, "compound") \/ includes(queryLower, "drug")
        THEN "list_drugs"
        ELSE IF includes(queryLower, "target") \/ includes(queryLower, "protein")
        THEN "list_targets"
        ELSE IF includes(queryLower, "interaction") \/ includes(queryLower, "partner")
        THEN "list_interactions"
        ELSE IF includes(queryLower, "expression") \/ includes(queryLower, "tissue")
        THEN "list_expression"
        ELSE "list_diseases"

extractIntent(q) ==
    LET queryLower == toLowerCase(q)
    IN  IF includes(queryLower, "toxicit") \/ includes(queryLower, "adverse")
        THEN "list_toxicities"
        ELSE IF includes(queryLower, "disease") \/ includes(queryLower, "condition")
        THEN "list_diseases"
        ELSE IF includes(queryLower, "compound") \/ includes(queryLower, "drug")
        THEN "list_drugs"
        ELSE IF includes(queryLower, "target") \/ includes(queryLower, "protein")
        THEN "list_targets"
        ELSE IF includes(queryLower, "interaction") \/ includes(queryLower, "partner")
        THEN "list_interactions"
        ELSE IF includes(queryLower, "expression") \/ includes(queryLower, "tissue")
        THEN "list_expression"
        ELSE "list_diseases"

-----------------------------------------------------------------------------
(* Query texts *)

EXAMPLE_QUERIES == <<
    "List diseases in Phase-2 for Imatinib",
    "List toxicities for Dasatinib",
    "List diseases associated with JAK2",
    "List approved compounds for Alopecia",
    "List interacting partners for TP53" >>

\* words a generated text is made of
Vocabulary == {
    "Imatinib", "GLEEVEC", "Dasatinib", "Sprycel", "CHEMBL941", "aspirin",
    "toxicities", "adverse", "diseases", "condition", "compounds", "drug",
    "targets", "protein", "interaction", "partners", "expression", "tissue",
    "Phase-2", "Phase", "12", "approved", "Preclinical",
    "JAK2", "TP53", "Alopecia" }

\* the texts of at most n words, one space between two words
RECURSIVE TextsOf(_)
TextsOf(n) ==
    IF n = 0 THEN {""}
    ELSE LET shorter == TextsOf(n - 1)
         IN  shorter \cup {IF t = "" THEN w ELSE t \o " " \o w :
                              t \in shorter, w \in Vocabulary}

Texts == TextsOf(MaxWords) \cup {EXAMPLE_QUERIES[i] : i \in 1..Len(EXAMPLE_QUERIES)}

-----------------------------------------------------------------------------
(* The extractors applied to a text, as handleQuery applies them *)

NotParsed == [intent |-> Null, entities |-> EmptyObject]

InitExtract ==
    /\ query \in Texts
    /\ parsed = NotParsed
    /\ selectedDatabases = <<"OpenTargets">>
    /\ results = <<>>
    /\ loading = FALSE
    /\ error = <<>>
    /\ queryInfo = <<>>
    /\ showSynonymPrompt = FALSE
    /\ synonymOptions = <<>>
    /\ pending = <<>>
    /\ lastOp = "init"
    /\ rendered = <<>>
    /\ csv = <<>>
    /\ activeChart = <<>>

Extract ==
    /\ lastOp = "init"
    /\ parsed' = [intent |-> extractIntent(query), entities |-> extractEntities(query)]
    /\ lastOp' = "extract"
    /\ UNCHANGED <<activeChart, rendered, csv, query, selectedDatabases, results, loading, error, queryInfo,
                   showSynonymPrompt, synonymOptions, pending>>

NextExtract == Extract

SpecExtract == InitExtract /\ [][NextExtract]_vars

-----------------------------------------------------------------------------
(* What the query form hands to Home.handleQuery *)

AVAILABLE_DATABASES == <<"OpenTargets", "ClinicalTrials.gov", "ClinVar",
                         "Human Protein Atlas", "MGI", "ChEMBL", "IUPHAR">>

\* texts the user types into the textarea
TypedQueries == {
    "", "   ",
    "List diseases in Phase-2 for Imatinib",
    "  List diseases in Phase-2 for Imatinib ",
    "List toxicities for Dasatinib",
    "Compare diseases for Imatinib and Dasatinib",
    "List diseases for CHEMBL941",
    "List approved conditions for GLEEVEC",
    "List toxicities for aspirin",
    "Show JAK2 expression",
    "List diseases in Phase 3 for Imatinib",
    "List preclinical diseases for STI571" }

\* the duplicate-free lists over a set of databases
RECURSIVE ListsOver(_)
ListsOver(S) ==
    {<<>>} \cup UNION {{<<d>> \o l : l \in ListsOver(S \ {d})} : d \in S}

\* selections of the form: those made one database at a time among the first
\* MaxDatabases, and Select All
DatabaseSelections ==
    ListsOver({AVAILABLE_DATABASES[i] : i \in 1..MaxDatabases})
    \cup {AVAILABLE_DATABASES}

\* the submit button is enabled (QueryForm: disabled = loading || !query.trim()
\* || selectedDatabases.length === 0)
SubmitEnabled(q, dbs) == ~loading /\ trim(q) # "" /\ Len(dbs) # 0

-----------------------------------------------------------------------------
(* getEnhancedMockData *)

\* databases[0] || 'OpenTargets'
SourceOf(databases) ==
    IF Len(databases) > 0 /\ databases[1] # "" THEN databases[1] ELSE "OpenTargets"

PhaseAlways2(entities) == "2"

\* entities.phase || '2'
PhaseOr2(entities) ==
    IF "phase" \in DOMAIN entities /\ entities.phase # "" THEN entities.phase ELSE "2"

ImatinibDiseaseNoScore(entities, databases, disease, efo, score) ==
    [drug |-> "Imatinib", drug_id |-> entities.drug.chembl_id,
     disease_name |-> disease, efo_id |-> efo,
     phase |-> PhaseOr2(entities), source |-> SourceOf(databases),
     synonyms_used |-> join(entities.drug.synonyms, ", ")]

ImatinibDisease(entities, databases, disease, efo, score) ==
    [drug |-> "Imatinib", drug_id |-> entities.drug.chembl_id,
     disease_name |-> disease, efo_id |-> efo,
     phase |-> PhaseOr2(entities), source |-> SourceOf(databases),
     evidence_score |-> score,
     synonyms_used |-> join(entities.drug.synonyms, ", ")]

DasatinibToxicitySwapped(entities, databases, toxicity, severity, frequency) ==
    [drug |-> "Dasatinib", drug_id |-> entities.drug.chembl_id,
     toxicity_type |-> toxicity, severity |-> frequency, frequency |-> severity,
     source |-> SourceOf(databases),
     synonyms_used |-> join(entities.drug.synonyms, ", ")]

DasatinibToxicity(entities, databases, toxicity, severity, frequency) ==
    [drug |-> "Dasatinib", drug_id |-> entities.drug.chembl_id,
     toxicity_type |-> toxicity, severity |-> severity, frequency |-> frequency,
     source |-> SourceOf(databases),
     synonyms_used |-> join(entities.drug.synonyms, ", ")]

\* entities.drug?.name
DrugNameOf(entities) ==
    IF "drug" \in DOMAIN entities THEN entities.drug.name ELSE Null

getEnhancedMockDataCapitalized(q, databases) ==
    LET entities == extractEntities(q)
        intent == extractIntent(q)
    IN  IF DrugNameOf(entities) = "Imatinib" /\ intent = "list_diseases"
        THEN <<ImatinibDisease(entities, databases,
                    "Chronic Myeloid Leukemia", "EFO_0000220", 95)>>
        ELSE <<>>

getEnhancedMockData(q, databases) ==
    LET entities == extractEntities(q)
        intent == extractIntent(q)
    IN  IF DrugNameOf(entities) = "imatinib" /\ intent = "list_diseases"
        THEN <<ImatinibDisease(entities, databases,
                    "Chronic Myeloid Leukemia", "EFO_0000220", 95),
               ImatinibDisease(entities, databases,
                    "Gastrointestinal Stromal Tumor", "EFO_0000559", 88),
               ImatinibDisease(entities, databases,
                    "Acute Lymphoblastic Leukemia", "EFO_0000095", 82)>>
        ELSE IF DrugNameOf(entities) = "dasatinib" /\ intent = "list_toxicities"
        THEN <<DasatinibToxicity(entities, databases,
                    "Pleural Effusion", "Grade 3", "28%"),
               DasatinibToxicity(entities, databases,
                    "Thrombocytopenia", "Grade 4", "15%")>>
        ELSE <<>>

-----------------------------------------------------------------------------
(* Home with the built-in data (QueryForm.js, "Production Demo")          *)
(*                                                                         *)
(* Home holds results, loading, error and queryInfo.  The form is a child  *)
(* component: what it holds when it is submitted (its text and its         *)
(* selection) is the input of Submit, and the form's own fields are not    *)
(* changed by the actions of Home.                                         *)

InitHome ==
    /\ query = ""
    /\ parsed = NotParsed
    /\ selectedDatabases = <<"OpenTargets">>
    /\ results = <<>>
    /\ loading = FALSE
    /\ error = <<>>
    /\ queryInfo = <<>>
    /\ showSynonymPrompt = FALSE
    /\ synonymOptions = <<>>
    /\ pending = <<>>
    /\ lastOp = "init"
    /\ rendered = <<>>
    /\ csv = <<>>
    /\ activeChart = <<>>

\* QueryForm.handleSubmit with the form holding text q and selection dbs, and
\* handleQuery up to its await
Submit(q, dbs) ==
    /\ SubmitEnabled(q, dbs)
    /\ trim(q) # "" /\ Len(dbs) > 0
    /\ loading' = TRUE
    /\ error' = <<>>
    /\ pending' = <<[query |-> trim(q), databases |-> dbs]>>
    /\ lastOp' = "submit"
    /\ UNCHANGED <<activeChart, rendered, csv, query, parsed, selectedDatabases, results, queryInfo,
                   showSynonymPrompt, synonymOptions>>

NoResultsErrorBare(q, entities) ==
    <<[message |-> "No results found for", query |-> q, recognized |-> EmptyObject]>>

\* the message of setError when mockData is empty: the query and the
\* recognized entities
NoResultsError(q, entities) ==
    <<[message |-> "No results found for", query |-> q, recognized |-> entities]>>

\* handleQuery after its await (the 800 ms timer fired).  queryInfo.timestamp,
\* the wall-clock time of the call, is read by no code and is left out.
EnhancedResume ==
    /\ pending # <<>>
    /\ LET q == pending[1].query
           databases == pending[1].databases
           entities == extractEntities(q)
           intent == extractIntent(q)
           mockData == getEnhancedMockData(q, databases)
       IN  /\ results' = mockData
           /\ queryInfo' = <<[parsed_query |-> [intent |-> intent,
                                                entities |-> entities,
                                                original_query |-> q],
                              databases_queried |-> databases,
                              processing_time |-> "0.8s",
                              api_calls_simulated |-> Len(databases)]>>
           /\ error' = IF Len(mockData) = 0 THEN NoResultsError(q, entities)
                       ELSE error
    /\ loading' = FALSE
    /\ pending' = <<>>
    /\ lastOp' = "resume"
    /\ UNCHANGED <<activeChart, rendered, csv, query, parsed, selectedDatabases, showSynonymPrompt,
                   synonymOptions>>

NextEnhanced ==
    \/ \E q \in TypedQueries, dbs \in DatabaseSelections : Submit(q, dbs)
    \/ EnhancedResume

SpecEnhanced == InitHome /\ [][NextEnhanced]_vars

-----------------------------------------------------------------------------
(* Home with the backend (/api/query) and the synonym prompt *)

\* entity.confidence < 0.8 asks for clarification
CONFIDENCE_THRESHOLD == 80

\* entities a response may hold in query_info.resolved_entities
ResolvedEntityPool == {
    [original |-> "dasatinib", synonyms |-> <<"sprycel", "bms-354825">>, confidence |-> 60],
    [original |-> "jak2", synonyms |-> <<>>, confidence |-> 79],
    [original |-> "imatinib", synonyms |-> <<"gleevec">>, confidence |-> 80] }

\* the values of resolved_entities in key order
RECURSIVE EntityLists(_)
EntityLists(n) ==
    IF n = 0 THEN {<<>>}
    ELSE EntityLists(n - 1)
         \cup {l \o <<e>> : l \in {m \in EntityLists(n - 1) : Len(m) = n - 1},
                            e \in ResolvedEntityPool}

\* query_info of a response: <<>> when the response has none; resolved is <<>>
\* when query_info has no resolved_entities, else <<the values>>
QueryInfos ==
    {<<>>}
    \cup {<<[parsed_query |-> [intent |-> "list_diseases"],
            databases_queried |-> <<"OpenTargets">>,
            resolved |-> r]>> :
             r \in {<<>>} \cup {<<l>> : l \in EntityLists(MaxEntities)}}

\* data of a response: <<>> when the response has no data list, else <<the list>>
DataLists ==
    {<<>>, << <<>> >>,
     << <<[drug |-> "Imatinib", disease_name |-> "Chronic Myeloid Leukemia",
           phase |-> "2", source |-> "OpenTargets"]>> >>}

\* what awaiting fetch and response.json() may end with: a rejection or a
\* non-ok status, with the message of the error thrown, or a parsed body
Responses ==
    {[ok |-> FALSE, message |-> m, data |-> <<>>, query_info |-> <<>>] :
        m \in {"HTTP error! status: 500", ""}}
    \cup {[ok |-> TRUE, message |-> "", data |-> d, query_info |-> qi] :
        d \in DataLists, qi \in QueryInfos}

RECURSIVE AmbiguousEntitiesInclusive(_)
AmbiguousEntitiesInclusive(entities) ==
    IF Len(entities) = 0 THEN <<>>
    ELSE IF entities[1].confidence <= CONFIDENCE_THRESHOLD
         THEN <<entities[1]>> \o AmbiguousEntitiesInclusive(Tail(entities))
         ELSE AmbiguousEntitiesInclusive(Tail(entities))

\* Object.values(resolved_entities).filter(entity => entity.confidence < 0.8)
RECURSIVE AmbiguousEntities(_)
AmbiguousEntities(entities) ==
    IF Len(entities) = 0 THEN <<>>
    ELSE IF entities[1].confidence < CONFIDENCE_THRESHOLD
         THEN <<entities[1]>> \o AmbiguousEntities(Tail(entities))
         ELSE AmbiguousEntities(Tail(entities))

\* err.message || 'An error occurred while processing your query'
ErrorMessage(m) ==
    <<[message |-> IF m # "" THEN m
                   ELSE "An error occurred while processing your query"]>>

\* Home renders Visualizations only while results holds records: the
\* component keeps its activeChart while it stays mounted, loses it when it
\* is unmounted and starts with 'bar' when it is mounted
Remount(chart, data) ==
    IF Len(data) = 0 THEN <<>>
    ELSE IF chart = <<>> THEN <<"bar">> ELSE chart

\* handleQuery after its awaits, the response being r
BackendResume(r) ==
    /\ pending # <<>>
    /\ IF ~r.ok
       THEN \* thrown before any state is set
            /\ error' = ErrorMessage(r.message)
            /\ UNCHANGED <<results, queryInfo, synonymOptions, showSynonymPrompt>>
       ELSE /\ results' = IF r.data = <<>> THEN <<>> ELSE r.data[1]
            /\ queryInfo' = r.query_info
            /\ IF r.data = <<>>
               THEN \* data.data.length throws a TypeError
                    /\ error' = ErrorMessage("Cannot read properties of undefined (reading 'length')")
                    /\ UNCHANGED <<synonymOptions, showSynonymPrompt>>
               ELSE /\ error' = error
                    /\ IF /\ Len(r.data[1]) = 0
                          /\ r.query_info # <<>>
                          /\ r.query_info[1].resolved # <<>>
                          /\ Len(AmbiguousEntities(r.query_info[1].resolved[1])) > 0
                       THEN /\ synonymOptions' = AmbiguousEntities(r.query_info[1].resolved[1])
                            /\ showSynonymPrompt' = TRUE
                       ELSE UNCHANGED <<synonymOptions, showSynonymPrompt>>
    /\ activeChart' = Remount(activeChart, results')
    /\ loading' = FALSE
    /\ pending' = <<>>
    /\ lastOp' = "resume"
    /\ UNCHANGED <<rendered, csv, query, parsed, selectedDatabases>>

\* SynonymPrompt is rendered: Home mounts it and it does not return null
PromptVisible == showSynonymPrompt /\ Len(synonymOptions) # 0

\* a click on an option of the prompt
handleSynonymSelection(selectedSynonym) ==
    /\ PromptVisible
    /\ ArrIncludes(synonymOptions, selectedSynonym)
    /\ showSynonymPrompt' = FALSE
    /\ lastOp' = "select"
    /\ UNCHANGED <<activeChart, rendered, csv, query, parsed, selectedDatabases, results, loading, error,
                   queryInfo, synonymOptions, pending>>

onCloseClearingResults ==
    /\ PromptVisible
    /\ showSynonymPrompt' = FALSE
    /\ results' = <<>>
    /\ error' = ErrorMessage("Query cancelled")
    /\ lastOp' = "cancel"
    /\ UNCHANGED <<activeChart, rendered, csv, query, parsed, selectedDatabases, loading, queryInfo,
                   synonymOptions, pending>>

\* Cancel or the close button of the prompt: () => setShowSynonymPrompt(false)
onClose ==
    /\ PromptVisible
    /\ showSynonymPrompt' = FALSE
    /\ lastOp' = "cancel"
    /\ UNCHANGED <<activeChart, rendered, csv, query, parsed, selectedDatabases, results, loading, error,
                   queryInfo, synonymOptions, pending>>

\* what the form holds when it is submitted to this page
BackendQueries == {"   ", "Compare diseases for Imatinib and Dasatinib",
                   " List toxicities for aspirin"}

BackendSelections == {<<>>, <<"OpenTargets">>, AVAILABLE_DATABASES}

\* the awaited fetch and response.json() end with r: the backend answered, or
\* the request failed
FetchSettles(r) ==
    /\ pending # <<>>
    /\ "response" \notin DOMAIN pending[1]
    /\ pending' = <<[query |-> pending[1].query,
                     databases |-> pending[1].databases, response |-> r]>>
    /\ UNCHANGED <<activeChart, rendered, csv, query, parsed, selectedDatabases, results,
                   loading, error, queryInfo, showSynonymPrompt, synonymOptions,
                   lastOp>>

\* handleQuery goes on once its await has ended
handleQueryContinues ==
    /\ pending # <<>>
    /\ "response" \in DOMAIN pending[1]
    /\ BackendResume(pending[1].response)

NextBackend ==
    \/ \E q \in BackendQueries, dbs \in BackendSelections : Submit(q, dbs)
    \/ \E r \in Responses : FetchSettles(r)
    \/ handleQueryContinues
    \/ \E o \in ResolvedEntityPool : handleSynonymSelection(o)
    \/ onClose

SpecBackend == InitHome /\ [][NextBackend]_vars

\* the event loop runs the rest of handleQuery once the awaited promise has
\* settled; nothing makes the backend answer
SpecBackendFair == SpecBackend /\ WF_vars(handleQueryContinues)

-----------------------------------------------------------------------------
(* The backend behind /api/query: source dispatch and the merge of the     *)
(* sources' records, as the design describes them (sections 4.4, 4.5, 5).  *)
(* Each selected source is an independent unit of work that completes or   *)
(* times out; the dispatcher gathers once none is running.                 *)

\* the sources a query is dispatched to
DispatchSources == {"OpenTargets", "ClinicalTrials.gov", "ClinVar"}

DispatchSelections == ListsOver(DispatchSources) \ {<<>>}

\* the harmonized records a source holds for the query, each tagged with its
\* source; a source may hold none
SourceRows(s) ==
    IF s = "OpenTargets"
    THEN <<[drug |-> "Imatinib", disease_name |-> "Chronic Myeloid Leukemia",
            phase |-> "2", source |-> s],
           [drug |-> "Imatinib", disease_name |-> "Gastrointestinal Stromal Tumor",
            phase |-> "2", source |-> s]>>
    ELSE IF s = "ClinicalTrials.gov"
    THEN <<[drug |-> "Imatinib", disease_name |-> "Chronic Myeloid Leukemia",
            phase |-> "2", source |-> s]>>
    ELSE <<>>

\* dispatch(resolved_query, selected_sources): one unit of work per source
Dispatch(dbs) ==
    /\ ~loading
    /\ loading' = TRUE
    /\ error' = <<>>
    /\ pending' = <<[databases |-> dbs,
                     outcome |-> [s \in {dbs[i] : i \in 1..Len(dbs)} |-> "running"]]>>
    /\ lastOp' = "dispatch"
    /\ UNCHANGED <<activeChart, rendered, csv, query, parsed, selectedDatabases, results,
                   queryInfo, showSynonymPrompt, synonymOptions>>

\* the outcome of source s becomes o
SourceEnds(s, o) ==
    /\ loading
    /\ s \in DOMAIN pending[1].outcome
    /\ pending[1].outcome[s] = "running"
    /\ pending' = <<[pending[1] EXCEPT !.outcome[s] = o]>>
    /\ lastOp' = "source"
    /\ UNCHANGED <<activeChart, rendered, csv, query, parsed, selectedDatabases, results,
                   loading, error, queryInfo, showSynonymPrompt, synonymOptions>>

\* a source call returns its records
SourceCompletes(s) == SourceEnds(s, "completed")

\* the per-source timeout of a source call expires
SourceTimesOut(s) == SourceEnds(s, "timeout")

\* the records of the completed sources, concatenated in the order of dbs
RECURSIVE Merge(_, _)
Merge(dbs, outcome) ==
    IF Len(dbs) = 0 THEN <<>>
    ELSE (IF outcome[dbs[1]] = "completed" THEN SourceRows(dbs[1]) ELSE <<>>)
         \o Merge(Tail(dbs), outcome)

PerSourceStatus(outcome) ==
    [s \in DOMAIN outcome |->
        IF outcome[s] = "completed" THEN "ok" ELSE "error: timeout"]

GatherFailFast ==
    /\ loading
    /\ \A s \in DOMAIN pending[1].outcome : pending[1].outcome[s] # "running"
    /\ LET failed == \E s \in DOMAIN pending[1].outcome :
                         pending[1].outcome[s] = "timeout"
       IN  /\ results' = IF failed THEN <<>>
                         ELSE Merge(pending[1].databases, pending[1].outcome)
           /\ error' = IF failed THEN <<[message |-> "timeout"]>> ELSE error
    /\ queryInfo' = <<[databases_queried |-> pending[1].databases,
                       per_source_status |-> PerSourceStatus(pending[1].outcome)]>>
    /\ loading' = FALSE
    /\ lastOp' = "gather"
    /\ UNCHANGED <<activeChart, rendered, csv, query, parsed, selectedDatabases, pending,
                   showSynonymPrompt, synonymOptions>>

\* the join: every source has completed or timed out
Gather ==
    /\ loading
    /\ \A s \in DOMAIN pending[1].outcome : pending[1].outcome[s] # "running"
    /\ results' = Merge(pending[1].databases, pending[1].outcome)
    /\ queryInfo' = <<[databases_queried |-> pending[1].databases,
                       per_source_status |-> PerSourceStatus(pending[1].outcome)]>>
    /\ loading' = FALSE
    /\ lastOp' = "gather"
    /\ UNCHANGED <<activeChart, rendered, csv, query, parsed, selectedDatabases, error, pending,
                   showSynonymPrompt, synonymOptions>>

NextDispatch ==
    \/ \E dbs \in DispatchSelections : Dispatch(dbs)
    \/ \E s \in DispatchSources : SourceCompletes(s)
    \/ \E s \in DispatchSources : SourceTimesOut(s)
    \/ Gather

SpecDispatch == InitHome /\ [][NextDispatch]_vars

-----------------------------------------------------------------------------
(* Records shown in a table or exported.  A record is the sequence of its  *)
(* fields [k |-> key, v |-> value] in insertion order, the order of        *)
(* Object.keys and Object.values; a value is a string, a number in         *)
(* hundredths, or null.                                                    *)

Str(s) == [str |-> s]

Num(n) == [num |-> n]

NullValue == [null |-> TRUE]

Undefined == [undefined |-> TRUE]

IsNullish(v) == v = NullValue \/ v = Undefined

\* Object.keys(row)
Keys(row) == [i \in 1..Len(row) |-> row[i].k]

\* row[key]
Get(row, key) ==
    IF \E i \in 1..Len(row) : row[i].k = key
    THEN row[CHOOSE i \in 1..Len(row) : row[i].k = key].v
    ELSE Undefined

DigitText(d) == SubSeq("0123456789", d + 1, d + 1)

\* the decimal digits of a natural number
RECURSIVE NatText(_)
NatText(n) ==
    IF n < 10 THEN DigitText(n) ELSE NatText(n \div 10) \o DigitText(n % 10)

\* String(x) of the number of n hundredths, n >= 0
NumberText(n) ==
    NatText(n \div 100)
    \o (IF n % 100 = 0 THEN ""
        ELSE "." \o DigitText((n \div 10) % 10)
                 \o (IF n % 10 = 0 THEN "" ELSE DigitText(n % 10)))

\* x.toFixed(3) of the number of n hundredths, n >= 0
toFixed3(n) ==
    NatText(n \div 100) \o "." \o DigitText((n \div 10) % 10)
                        \o DigitText(n % 10) \o "0"

\* the text a value is converted to where it is put into a text or rendered
\* as a child; Array.prototype.join gives "" for null and undefined, and
\* React renders nothing for them
ToText(v) ==
    IF IsNullish(v) THEN ""
    ELSE IF "num" \in DOMAIN v THEN NumberText(v.num)
    ELSE v.str

\* String.prototype.startsWith
startsWith(s, p) == Len(s) >= Len(p) /\ SubSeq(s, 1, Len(p)) = p

\* the value of a text of digits
RECURSIVE DigitsValue(_)
DigitsValue(s) ==
    IF Len(s) = 0 THEN 0
    ELSE 10 * DigitsValue(SubSeq(s, 1, Len(s) - 1))
         + (CHOOSE d \in 0..9 : DigitText(d) = SubSeq(s, Len(s), Len(s)))

\* parseFloat of an unsigned text with at most two decimals: <<>> for NaN,
\* else <<the number in hundredths>>
parseFloat(s) ==
    LET t == TrimStart(s)
        a == SkipDigits(t, 1)
        hasDot == a <= Len(t) /\ SubSeq(t, a, a) = "."
        b == IF hasDot THEN SkipDigits(t, a + 1) ELSE a
        frac == IF hasDot THEN SubSeq(t, a + 1, b - 1) ELSE ""
    IN  IF a = 1 /\ Len(frac) = 0 THEN <<>>
        ELSE <<100 * DigitsValue(SubSeq(t, 1, a - 1))
               + (IF Len(frac) = 0 THEN 0
                  ELSE IF Len(frac) = 1 THEN 10 * DigitsValue(frac)
                  ELSE DigitsValue(SubSeq(frac, 1, 2)))>>

-----------------------------------------------------------------------------
(* Home of pages/index.js: the form, the built-in results, the inline      *)
(* table and the CSV export in one component.                              *)

\* the databases of the checkboxes
SIMPLE_DATABASES == <<"OpenTargets", "ClinicalTrials.gov", "ClinVar",
                      "Human Protein Atlas", "ChEMBL">>

\* texts typed into the textarea, or set by an example button
SimpleTexts == {"", "   ", "List diseases in Phase-2 for Imatinib",
                "List toxicities for Dasatinib", "List diseases for Dasatinib",
                "List diseases associated with JAK2"}

SimpleImatinib(disease, score) ==
    <<[k |-> "drug", v |-> Str("Imatinib")], [k |-> "drug_id", v |-> Str("CHEMBL941")],
      [k |-> "disease_name", v |-> Str(disease)], [k |-> "phase", v |-> Str("2")],
      [k |-> "source", v |-> Str("OpenTargets")], [k |-> "evidence_score", v |-> Str(score)]>>

\* mockResults of handleSubmit
SimpleMockResults(q) ==
    IF includes(toLowerCase(q), "imatinib") \/ includes(toLowerCase(q), "gleevec")
    THEN <<SimpleImatinib("Chronic Myeloid Leukemia", "0.95"),
           SimpleImatinib("Gastrointestinal Stromal Tumor", "0.88")>>
    ELSE IF includes(toLowerCase(q), "dasatinib")
    THEN << <<[k |-> "drug", v |-> Str("Dasatinib")], [k |-> "drug_id", v |-> Str("CHEMBL1421")],
              [k |-> "toxicity_type", v |-> Str("Pleural Effusion")],
              [k |-> "severity", v |-> Str("Grade 3")], [k |-> "frequency", v |-> Str("28%")],
              [k |-> "source", v |-> Str("OpenTargets")]>> >>
    ELSE <<>>

\* key.replace(/_/g, ' ')
RECURSIVE ReplaceUnderscores(_)
ReplaceUnderscores(s) ==
    IF Len(s) = 0 THEN ""
    ELSE (IF SubSeq(s, 1, 1) = "_" THEN " " ELSE SubSeq(s, 1, 1))
         \o ReplaceUnderscores(SubSeq(s, 2, Len(s)))

\* the table of the page: the header cells are the keys of the first record,
\* the cells of a row its values in their own order
InlineTable(rs) ==
    IF Len(rs) = 0 THEN <<>>
    ELSE <<[columns |-> [j \in 1..Len(rs[1]) |-> ReplaceUnderscores(rs[1][j].k)],
            rows |-> [i \in 1..Len(rs) |->
                        [j \in 1..Len(rs[i]) |-> ToText(rs[i][j].v)]]]>>

\* textarea onChange, or the click on an example
setQuery(text) ==
    /\ query' = text
    /\ lastOp' = "type"
    /\ UNCHANGED <<activeChart, rendered, csv, parsed, selectedDatabases, results, loading,
                   error, queryInfo, showSynonymPrompt, synonymOptions, pending>>

\* selectedDatabases.filter(d => d !== db)
RECURSIVE FilterOut(_, _)
FilterOut(arr, db) ==
    IF Len(arr) = 0 THEN <<>>
    ELSE (IF arr[1] # db THEN <<arr[1]>> ELSE <<>>) \o FilterOut(Tail(arr), db)

\* onChange of the checkbox of db
toggleDatabase(db) ==
    /\ selectedDatabases' = IF ~ArrIncludes(selectedDatabases, db)
                            THEN Append(selectedDatabases, db)
                            ELSE FilterOut(selectedDatabases, db)
    /\ lastOp' = "toggle"
    /\ UNCHANGED <<activeChart, rendered, csv, query, parsed, results, loading, error,
                   queryInfo, showSynonymPrompt, synonymOptions, pending>>

\* handleSubmit up to its await; the submit button is disabled while loading
\* or when the text is blank
handleSubmit ==
    /\ ~(loading \/ trim(query) = "")
    /\ trim(query) # ""
    /\ loading' = TRUE
    /\ pending' = <<[query |-> query, databases |-> selectedDatabases]>>
    /\ lastOp' = "submit"
    /\ UNCHANGED <<activeChart, rendered, csv, query, parsed, selectedDatabases, results,
                   error, queryInfo, showSynonymPrompt, synonymOptions>>

\* handleSubmit after its await (the 1000 ms timer fired), and the render of
\* the new results
SimpleResume ==
    /\ pending # <<>>
    /\ results' = SimpleMockResults(pending[1].query)
    /\ rendered' = InlineTable(SimpleMockResults(pending[1].query))
    /\ loading' = FALSE
    /\ pending' = <<>>
    /\ lastOp' = "resume"
    /\ UNCHANGED <<activeChart, csv, query, parsed, selectedDatabases, error, queryInfo,
                   showSynonymPrompt, synonymOptions>>

\* rows.map(row => Object.values(row).join(',')).join('\n')
RECURSIVE JoinRows(_)
JoinRows(rs) ==
    IF Len(rs) = 0 THEN ""
    ELSE join([j \in 1..Len(rs[1]) |-> ToText(rs[1][j].v)], ",")
         \o (IF Len(rs) > 1 THEN "\n" ELSE "") \o JoinRows(Tail(rs))

\* the Export CSV button, shown with results
exportCSV ==
    /\ Len(results) > 0
    /\ csv' = <<join(Keys(results[1]), ",") \o "\n" \o JoinRows(results)>>
    /\ lastOp' = "export"
    /\ UNCHANGED <<activeChart, rendered, query, parsed, selectedDatabases, results, loading,
                   error, queryInfo, showSynonymPrompt, synonymOptions, pending>>

NextSimple ==
    \/ \E text \in SimpleTexts : setQuery(text)
    \/ \E i \in 1..MaxDatabases : toggleDatabase(SIMPLE_DATABASES[i])
    \/ handleSubmit
    \/ SimpleResume
    \/ exportCSV

SpecSimple == InitHome /\ [][NextSimple]_vars

-----------------------------------------------------------------------------
(* ResultsTable: the columns and cells of the table, and the CSV export *)

\* the letters that start a key or occur in upper case in a key
UpperChar(c) ==
    CASE c = "d" -> "D" [] c = "e" -> "E" [] c = "f" -> "F" [] c = "n" -> "N"
      [] c = "p" -> "P" [] c = "t" -> "T" [] c = "u" -> "U"
      [] OTHER -> c

IsUpperCase(c) == LowerChar(c) # c

\* .replace(/([A-Z])/g, ' $1')
RECURSIVE SpaceBeforeCapitals(_)
SpaceBeforeCapitals(s) ==
    IF Len(s) = 0 THEN ""
    ELSE (IF IsUpperCase(SubSeq(s, 1, 1)) THEN " " ELSE "") \o SubSeq(s, 1, 1)
         \o SpaceBeforeCapitals(SubSeq(s, 2, Len(s)))

\* .replace(/^./, str => str.toUpperCase())
CapitalizeFirst(s) ==
    IF Len(s) = 0 THEN s ELSE UpperChar(SubSeq(s, 1, 1)) \o SubSeq(s, 2, Len(s))

formatColumnHeader(key) ==
    trim(CapitalizeFirst(SpaceBeforeCapitals(ReplaceUnderscores(key))))

getSortType(key) ==
    IF includes(key, "score") \/ includes(key, "frequency") \/ includes(key, "phase")
    THEN "basic" ELSE "alphanumeric"

\* what a cell shows: the kind of element and its text
formatCellValue(value, key) ==
    IF IsNullish(value) THEN [kind |-> "absent", text |-> "-"]
    ELSE IF "num" \in DOMAIN value
    THEN [kind |-> "number",
          text |-> IF includes(key, "score") \/ includes(key, "frequency")
                   THEN toFixed3(value.num) ELSE NumberText(value.num)]
    ELSE IF startsWith(value.str, "http") THEN [kind |-> "link", text |-> "Link"]
    ELSE IF includes(key, "phase") THEN [kind |-> "phase", text |-> value.str]
    ELSE IF includes(key, "evidence_score") \/ includes(key, "score")
    THEN [kind |-> "score",
          text |-> IF parseFloat(value.str) = <<>> THEN "NaN"
                   ELSE toFixed3(parseFloat(value.str)[1])]
    ELSE [kind |-> "text", text |-> value.str]

\* allKeys.add(key) for the keys of one row
RECURSIVE AddKeys(_, _)
AddKeys(allKeys, keys) ==
    IF Len(keys) = 0 THEN allKeys
    ELSE AddKeys(IF ArrIncludes(allKeys, keys[1]) THEN allKeys
                 ELSE Append(allKeys, keys[1]), Tail(keys))

\* the keys of all rows, in the order they are first met
RECURSIVE AllKeysFrom(_, _)
AllKeysFrom(allKeys, data) ==
    IF Len(data) = 0 THEN allKeys
    ELSE AllKeysFrom(AddKeys(allKeys, Keys(data[1])), Tail(data))

AllKeysFirstRow(data) == IF Len(data) = 0 THEN <<>> ELSE Keys(data[1])

AllKeys(data) == AllKeysFrom(<<>>, data)

columns(data) ==
    [j \in 1..Len(AllKeys(data)) |->
        [Header |-> formatColumnHeader(AllKeys(data)[j]),
         accessor |-> AllKeys(data)[j],
         sortType |-> getSortType(AllKeys(data)[j])]]

\* the records a table is given
TableRows == {
    <<[k |-> "drug", v |-> Str("Imatinib")],
      [k |-> "disease_name", v |-> Str("Chronic Myeloid Leukemia")],
      [k |-> "phase", v |-> Str("2")],
      [k |-> "evidence_score", v |-> Num(95)]>>,
    <<[k |-> "drug", v |-> Str("Dasatinib")],
      [k |-> "toxicity_type", v |-> Str("Pleural Effusion")],
      [k |-> "frequency", v |-> Str("28%")]>>,
    <<[k |-> "disease_name", v |-> Str("Leukemia, \"chronic\"")],
      [k |-> "drug", v |-> Str("Imatinib")],
      [k |-> "evidence_score", v |-> Str("0.88")],
      [k |-> "url", v |-> Str("http://x.org")]>>,
    <<[k |-> "drug", v |-> NullValue],
      [k |-> "evidence_score", v |-> Num(0)],
      [k |-> "phase", v |-> Str("")],
      [k |-> "note", v |-> Str("first\nsecond")]>>,
    <<[k |-> "drug", v |-> Str("Dasatinib")],
      [k |-> "phase", v |-> Num(300)],
      [k |-> "frequency", v |-> Num(28)]>> }

\* the lists of at most n records
RECURSIVE TableDataOf(_)
TableDataOf(n) ==
    IF n = 0 THEN {<<>>}
    ELSE TableDataOf(n - 1)
         \cup {l \o <<r>> : l \in {m \in TableDataOf(n - 1) : Len(m) = n - 1},
                            r \in TableRows}

TableData == TableDataOf(MaxRows)

InitTable ==
    /\ results \in TableData
    /\ query = ""
    /\ parsed = NotParsed
    /\ selectedDatabases = <<"OpenTargets">>
    /\ loading = FALSE
    /\ error = <<>>
    /\ queryInfo = <<>>
    /\ showSynonymPrompt = FALSE
    /\ synonymOptions = <<>>
    /\ pending = <<>>
    /\ lastOp = "init"
    /\ rendered = <<>>
    /\ csv = <<>>
    /\ activeChart = <<>>

\* the render of ResultsTable with data = results; without data it shows
\* "No data to display".  The cells of record i are rows[i]: the order in
\* which react-table displays the rows is not part of rendered.
RenderTable ==
    /\ Len(results) > 0
    /\ rendered' =
         <<[columns |-> columns(results),
            rows |-> [i \in 1..Len(results) |->
                        [j \in 1..Len(columns(results)) |->
                            formatCellValue(
                                Get(results[i], columns(results)[j].accessor),
                                columns(results)[j].accessor)]]]>>
    /\ lastOp' = "render"
    /\ UNCHANGED <<activeChart, csv, query, parsed, selectedDatabases, results, loading, error,
                   queryInfo, showSynonymPrompt, synonymOptions, pending>>

\* Papa.unparse(data) of papaparse with its default configuration, as its
\* documentation gives it: the fields are the keys of the first object, a
\* null or undefined value gives an empty cell, a value holding the
\* delimiter, a quote, a line break or a leading or trailing space is put in
\* quotes with its quotes doubled, and the lines are joined by "\r\n".
NeedsQuotes(s) ==
    \/ includes(s, ",") \/ includes(s, "\"") \/ includes(s, "\n") \/ includes(s, "\r")
    \/ (Len(s) > 0 /\ (SubSeq(s, 1, 1) = " " \/ SubSeq(s, Len(s), Len(s)) = " "))

RECURSIVE DoubleQuotes(_)
DoubleQuotes(s) ==
    IF Len(s) = 0 THEN ""
    ELSE (IF SubSeq(s, 1, 1) = "\"" THEN "\"\"" ELSE SubSeq(s, 1, 1))
         \o DoubleQuotes(SubSeq(s, 2, Len(s)))

SafeCell(s) == IF NeedsQuotes(s) THEN "\"" \o DoubleQuotes(s) \o "\"" ELSE s

UnparseRow(fields, row) ==
    join([j \in 1..Len(fields) |-> SafeCell(ToText(Get(row, fields[j])))], ",")

unparse(data) ==
    IF Len(data) = 0 THEN ""
    ELSE LET fields == Keys(data[1])
         IN  join(<<join([j \in 1..Len(fields) |-> SafeCell(fields[j])], ",")>>
                  \o [i \in 1..Len(data) |-> UnparseRow(fields, data[i])],
                  "\r\n")

\* the Export CSV button of the table
exportToCSV ==
    /\ Len(results) > 0
    /\ csv' = <<unparse(results)>>
    /\ lastOp' = "export"
    /\ UNCHANGED <<activeChart, rendered, query, parsed, selectedDatabases, results, loading,
                   error, queryInfo, showSynonymPrompt, synonymOptions, pending>>

NextTable ==
    \/ RenderTable
    \/ exportToCSV

SpecTable == InitTable /\ [][NextTable]_vars

-----------------------------------------------------------------------------
(* The Visualizations component with the chart types (unnamed/part_001),   *)
(* mounted by Home of the page with the backend while results holds        *)
(* records.  A chart value that Math.random() draws is [random |-> TRUE].  *)

\* item[key] || fallback, the values being texts
TextOr(item, key, fallback) ==
    IF key \in DOMAIN item /\ item[key] # "" THEN item[key] ELSE fallback

\* queryInfo?.parsed_query?.intent
IntentOf(info) ==
    IF info # <<>> /\ "parsed_query" \in DOMAIN info[1]
       /\ "intent" \in DOMAIN info[1].parsed_query
    THEN info[1].parsed_query.intent
    ELSE "undefined"

\* the key a record is counted under: its phase, its toxicity or its source
GroupOf(intent, item) ==
    IF intent \in {"list_diseases", "list_drugs"}
    THEN TextOr(item, "phase", "Unknown")
    ELSE IF intent = "list_toxicities"
    THEN TextOr(item, "toxicity_type", TextOr(item, "adverse_event", "Unknown"))
    ELSE TextOr(item, "source", "Unknown")

\* data.forEach(item => count[key] = (count[key] || 0) + 1): the keys in the
\* order in which they were added, each with its count
RECURSIVE CountInto(_, _, _)
CountInto(count, intent, data) ==
    IF Len(data) = 0 THEN count
    ELSE LET k == GroupOf(intent, data[1])
             at == {i \in 1..Len(count) : count[i].name = k}
         IN  CountInto(IF at = {}
                       THEN Append(count, [name |-> k, value |-> 1])
                       ELSE [i \in 1..Len(count) |->
                               IF i \in at
                               THEN [name |-> k, value |-> count[i].value + 1]
                               ELSE count[i]],
                       intent, Tail(data))

\* a key that is an array index: digits without a leading zero
IsArrayIndex(s) ==
    /\ Len(s) > 0
    /\ SkipDigits(s, 1) = Len(s) + 1
    /\ (Len(s) = 1 \/ SubSeq(s, 1, 1) # "0")

RECURSIVE AscendingEntries(_)
AscendingEntries(es) ==
    IF Len(es) = 0 THEN <<>>
    ELSE LET m == CHOOSE i \in 1..Len(es) :
                    \A j \in 1..Len(es) :
                        DigitsValue(es[i].name) <= DigitsValue(es[j].name)
         IN  <<es[m]>> \o AscendingEntries(SubSeq(es, 1, m - 1)
                                           \o SubSeq(es, m + 1, Len(es)))

\* Object.entries(count).map(([name, value]) => ({ name, value })): the keys
\* that are array indices in ascending order, then the others as added
ObjectEntries(count) ==
    AscendingEntries(SelectSeq(count, LAMBDA e : IsArrayIndex(e.name)))
    \o SelectSeq(count, LAMBDA e : ~IsArrayIndex(e.name))

\* parseFloat(item.expression_level || Math.random())
ExpressionValue(item) ==
    IF "expression_level" \in DOMAIN item /\ item.expression_level # ""
    THEN [value |-> parseFloat(item.expression_level)]
    ELSE [random |-> TRUE]

\* heatmapData is <<>> for null, else <<the cells>>
prepareChartData(data, info) ==
    LET intent == IntentOf(info)
        counted == ObjectEntries(CountInto(<<>>, intent, data))
        sample(i) == TextOr(data[i], "tissue", "Sample " \o NatText(i))
    IN  IF intent = "list_expression"
        THEN [barData |-> [i \in 1..Len(data) |->
                             [name |-> sample(i), value |-> ExpressionValue(data[i])]],
              pieData |-> <<>>,
              heatmapData |-> <<[i \in 1..Len(data) |->
                             [tissue |-> sample(i), value |-> ExpressionValue(data[i])]]>>]
        ELSE [barData |-> counted, pieData |-> counted, heatmapData |-> <<>>]

\* the chart in the chart container, <<>> when it is empty: an array, empty
\* or not, is truthy and null is not
ChartContainer(chart, data, info) ==
    LET chartData == prepareChartData(data, info)
    IN  IF chart = <<"bar">>
        THEN <<[type |-> "bar", data |-> chartData.barData]>>
        ELSE IF chart = <<"pie">>
        THEN <<[type |-> "pie", data |-> chartData.pieData]>>
        ELSE IF chart = <<"heatmap">> /\ chartData.heatmapData # <<>>
        THEN <<[type |-> "heatmap", data |-> chartData.heatmapData[1]]>>
        ELSE <<>>

\* the chart type buttons: Heatmap is there only with heatmapData
ChartButtons(data, info) ==
    {"bar", "pie"}
    \cup (IF prepareChartData(data, info).heatmapData # <<>>
          THEN {"heatmap"} ELSE {})

\* a click on a chart type button of the mounted component
setActiveChart(type) ==
    /\ activeChart # <<>>
    /\ type \in ChartButtons(results, queryInfo)
    /\ activeChart' = <<type>>
    /\ lastOp' = "chart"
    /\ UNCHANGED <<rendered, csv, query, parsed, selectedDatabases, results,
                   loading, error, queryInfo, showSynonymPrompt,
                   synonymOptions, pending>>

\* records the backend may answer with
ExpressionRecords ==
    <<[gene |-> "JAK2", tissue |-> "liver", expression_level |-> "0.85",
       source |-> "OpenTargets"],
      [gene |-> "JAK2", tissue |-> "", expression_level |-> "",
       source |-> "OpenTargets"]>>

DiseaseRecords ==
    <<[drug |-> "Imatinib", disease_name |-> "Chronic Myeloid Leukemia",
       phase |-> "approved", source |-> "OpenTargets"],
      [drug |-> "Imatinib", disease_name |-> "Glioblastoma",
       phase |-> "2", source |-> "OpenTargets"],
      [drug |-> "Imatinib", disease_name |-> "Melanoma",
       phase |-> "2", source |-> "ClinicalTrials.gov"]>>

ChartQueryInfo(intent) ==
    <<[parsed_query |-> [intent |-> intent],
       databases_queried |-> <<"OpenTargets">>, resolved |-> <<>>]>>

\* what the awaited fetch may end with on the page with the charts
ChartResponses ==
    {[ok |-> FALSE, message |-> "HTTP error! status: 500", data |-> <<>>,
      query_info |-> <<>>],
     [ok |-> TRUE, message |-> "", data |-> << <<>> >>,
      query_info |-> ChartQueryInfo("list_diseases")],
     [ok |-> TRUE, message |-> "", data |-> <<ExpressionRecords>>,
      query_info |-> ChartQueryInfo("list_expression")],
     [ok |-> TRUE, message |-> "", data |-> <<DiseaseRecords>>,
      query_info |-> ChartQueryInfo("list_diseases")],
     [ok |-> TRUE, message |-> "", data |-> <<DiseaseRecords>>,
      query_info |-> <<>>]}

ChartQueries == {"Show JAK2 expression", "List diseases in Phase-2 for Imatinib"}

NextCharts ==
    \/ \E q \in ChartQueries : Submit(q, <<"OpenTargets">>)
    \/ \E r \in ChartResponses : FetchSettles(r)
    \/ handleQueryContinues
    \/ \E type \in {"bar", "pie", "heatmap"} : setActiveChart(type)

SpecCharts == InitHome /\ [][NextCharts]_vars

-----------------------------------------------------------------------------
(* The QueryForm component: its text, its selection and its handlers.  The *)
(* component gets loading and onSubmit from its page; here the page is    *)
(* idle and the call of onSubmit is kept in pending.  showExamples, which  *)
(* only folds the list of examples, is left out.                           *)

\* texts typed into the textarea, or set by useExampleQuery
FormTexts == {"", "   ", " List toxicities for Dasatinib "}
             \cup {EXAMPLE_QUERIES[i] : i \in 1..Len(EXAMPLE_QUERIES)}

\* textarea onChange (the textarea is disabled while loading), or
\* useExampleQuery
onChangeQuery(text) ==
    /\ ~loading
    /\ query' = text
    /\ lastOp' = "type"
    /\ UNCHANGED <<activeChart, rendered, csv, parsed, selectedDatabases, results, loading,
                   error, queryInfo, showSynonymPrompt, synonymOptions, pending>>

handleDatabaseChangeNoKeep(database) ==
    /\ selectedDatabases' = IF ArrIncludes(selectedDatabases, database)
                            THEN FilterOut(selectedDatabases, database)
                            ELSE Append(selectedDatabases, database)
    /\ lastOp' = "toggle"
    /\ UNCHANGED <<activeChart, rendered, csv, query, parsed, results, loading, error,
                   queryInfo, showSynonymPrompt, synonymOptions, pending>>

\* onChange of the checkbox of database
handleDatabaseChange(database) ==
    /\ selectedDatabases' =
          IF ArrIncludes(selectedDatabases, database)
          THEN (IF Len(selectedDatabases) > 1
                THEN FilterOut(selectedDatabases, database)
                ELSE selectedDatabases)
          ELSE Append(selectedDatabases, database)
    /\ lastOp' = "toggle"
    /\ UNCHANGED <<activeChart, rendered, csv, query, parsed, results, loading, error,
                   queryInfo, showSynonymPrompt, synonymOptions, pending>>

selectAllDatabasesAppending ==
    /\ selectedDatabases' = selectedDatabases \o AVAILABLE_DATABASES
    /\ lastOp' = "selectAll"
    /\ UNCHANGED <<activeChart, rendered, csv, query, parsed, results, loading, error,
                   queryInfo, showSynonymPrompt, synonymOptions, pending>>

\* the Select All button
selectAllDatabases ==
    /\ selectedDatabases' = AVAILABLE_DATABASES
    /\ lastOp' = "selectAll"
    /\ UNCHANGED <<activeChart, rendered, csv, query, parsed, results, loading, error,
                   queryInfo, showSynonymPrompt, synonymOptions, pending>>

\* the Clear button
clearDatabases ==
    /\ selectedDatabases' = <<"OpenTargets">>
    /\ lastOp' = "clear"
    /\ UNCHANGED <<activeChart, rendered, csv, query, parsed, results, loading, error,
                   queryInfo, showSynonymPrompt, synonymOptions, pending>>

\* handleSubmit of the form: the submit button is disabled while loading, on a
\* blank text and on an empty selection
QueryFormSubmit ==
    /\ ~(loading \/ trim(query) = "" \/ Len(selectedDatabases) = 0)
    /\ trim(query) # "" /\ Len(selectedDatabases) > 0
    /\ pending' = <<[query |-> trim(query), databases |-> selectedDatabases]>>
    /\ lastOp' = "submit"
    /\ UNCHANGED <<activeChart, rendered, csv, query, parsed, selectedDatabases, results,
                   loading, error, queryInfo, showSynonymPrompt, synonymOptions>>

NextForm ==
    \/ \E text \in FormTexts : onChangeQuery(text)
    \/ \E i \in 1..MaxDatabases : handleDatabaseChange(AVAILABLE_DATABASES[i])
    \/ selectAllDatabases
    \/ clearDatabases
    \/ QueryFormSubmit

SpecForm == InitHome /\ [][NextForm]_vars

-----------------------------------------------------------------------------
(* Properties of the extractors, under SpecExtract *)

Extracted == lastOp = "extract"

QueryLower == toLowerCase(query)

\* the classifier's rules as the specification lists them
IntentRules == <<
    [keywords |-> {"toxicit", "adverse"},      intent |-> "list_toxicities"],
    [keywords |-> {"disease", "condition"},    intent |-> "list_diseases"],
    [keywords |-> {"compound", "drug"},        intent |-> "list_drugs"],
    [keywords |-> {"target", "protein"},       intent |-> "list_targets"],
    [keywords |-> {"interaction", "partner"},  intent |-> "list_interactions"],
    [keywords |-> {"expression", "tissue"},    intent |-> "list_expression"] >>

RuleApplies(i) == \E k \in IntentRules[i].keywords : includes(QueryLower, k)

\* C1: extractIntent returns the intent of the first rule, in the listed
\* order, one of whose keywords occurs in the lowercased text, and
\* list_diseases when no keyword occurs; a text with a toxicity keyword and a
\* disease keyword is list_toxicities.
C1_IntentFirstMatchWins ==
    Extracted =>
        /\ \A i \in 1..Len(IntentRules) :
              (RuleApplies(i) /\ \A j \in 1..(i - 1) : ~RuleApplies(j))
                  => parsed.intent = IntentRules[i].intent
        /\ (\A i \in 1..Len(IntentRules) : ~RuleApplies(i))
              => parsed.intent = "list_diseases"
        /\ (RuleApplies(1) /\ RuleApplies(2)) => parsed.intent = "list_toxicities"

C1_Witness ==
    /\ Extracted
    /\ includes(QueryLower, "toxicit")
    /\ includes(QueryLower, "disease")
    /\ parsed.intent = "list_toxicities"

\* the synonym table of each class
Tables == [drug |-> DRUG_SYNONYMS, target |-> TARGET_SYNONYMS,
           disease |-> DISEASE_SYNONYMS]

MatchingEntriesIn(q, class) ==
    {i \in 1..Len(Tables[class]) : EntryMatches(toLowerCase(q), Tables[class][i])}

MatchingEntries(class) == MatchingEntriesIn(query, class)

\* C2: every text holding a drug's canonical name or one of its synonyms, in
\* any letter case, yields a drug candidate for that entry with confidence at
\* least the threshold and the entry's ChEMBL identifier.
C2_DrugCandidateForEveryMatch ==
    Extracted =>
        \A i \in MatchingEntries("drug") :
            /\ "drug" \in DOMAIN parsed.entities
            /\ parsed.entities.drug.name = DRUG_SYNONYMS[i].name
            /\ parsed.entities.drug.chembl_id = DRUG_SYNONYMS[i].chembl_id
            /\ parsed.entities.drug.confidence >= CONFIDENCE_THRESHOLD

\* C3: a text naming a drug by its ChEMBL identifier resolves to the drug
\* entity that its canonical name resolves to.
C3_ChemblIdResolvesDrug ==
    Extracted =>
        \A i \in 1..Len(DRUG_SYNONYMS) :
            includes(QueryLower, toLowerCase(DRUG_SYNONYMS[i].chembl_id))
                => /\ "drug" \in DOMAIN parsed.entities
                   /\ parsed.entities.drug
                        = extractEntities(DRUG_SYNONYMS[i].name).drug

\* an occurrence of phase[-\s]*<digit>, approved or preclinical
PhasePatternOccurs(s) ==
    \/ includes(s, "approved")
    \/ includes(s, "preclinical")
    \/ \E i \in 1..(Len(s) - 5) :
          /\ SubSeq(s, i, i + 4) = "phase"
          /\ \E j \in (i + 5)..Len(s) :
                /\ IsDigit(SubSeq(s, j, j))
                /\ \A m \in (i + 5)..(j - 1) :
                      SubSeq(s, m, m) = "-" \/ IsWhitespace(SubSeq(s, m, m))

\* C4: a class none of whose table entries (for phase: no phase pattern)
\* matches the text is no key of the returned map, and no key of the map
\* holds an empty string or null.
C4_UnmatchedClassAbsent ==
    Extracted =>
        /\ \A class \in DOMAIN Tables :
              MatchingEntries(class) = {} => class \notin DOMAIN parsed.entities
        /\ ~PhasePatternOccurs(QueryLower) => "phase" \notin DOMAIN parsed.entities
        /\ "phase" \in DOMAIN parsed.entities =>
              parsed.entities.phase \notin {"", Null}

C4_Witness ==
    /\ Extracted
    /\ MatchingEntries("drug") # {}
    /\ ~PhasePatternOccurs(QueryLower)
    /\ DOMAIN parsed.entities = {"drug"}

\* the candidates of a class in the returned map
Candidates(class) ==
    IF class \in DOMAIN parsed.entities THEN {parsed.entities[class].name} ELSE {}

\* C5: every table entry of a class whose name or synonym occurs in the text
\* becomes a candidate of that class, also when two entries match.
C5_EveryMatchingEntryIsCandidate ==
    Extracted =>
        \A class \in DOMAIN Tables :
            \A i \in MatchingEntries(class) :
                Tables[class][i].name \in Candidates(class)

\* the values of the phase expressions of a text: the digit string after
\* phase and its hyphens/whitespace, or the word approved or preclinical
PhaseValues(s) ==
    {w \in {"approved", "preclinical"} : includes(s, w)}
    \cup {SubSeq(s, j, k) : <<j, k>> \in
            {jk \in (1..Len(s)) \X (1..Len(s)) :
                /\ jk[1] <= jk[2]
                /\ \A m \in jk[1]..jk[2] : IsDigit(SubSeq(s, m, m))
                /\ jk[2] < Len(s) => ~IsDigit(SubSeq(s, jk[2] + 1, jk[2] + 1))
                /\ \E i \in 1..(jk[1] - 5) :
                      /\ SubSeq(s, i, i + 4) = "phase"
                      /\ \A m \in (i + 5)..(jk[1] - 1) :
                            SubSeq(s, m, m) = "-" \/ IsWhitespace(SubSeq(s, m, m))}}

\* C9: a phase is detected exactly when the text holds phase (hyphens or
\* whitespace) digit, approved or preclinical, in any letter case; the map
\* holds one phase value, that of one of the text's phase expressions: the
\* digit string for phase N ("Phase-2" gives "2"), else the matched word.
C9_PhaseDetection ==
    Extracted =>
        /\ ("phase" \in DOMAIN parsed.entities) <=> PhasePatternOccurs(QueryLower)
        /\ "phase" \in DOMAIN parsed.entities
              => parsed.entities.phase \in PhaseValues(QueryLower)
        /\ query = "Phase-2" => parsed.entities.phase = "2"

C9_Witness ==
    /\ Extracted
    /\ Cardinality(PhaseValues(QueryLower)) >= 2
    /\ parsed.entities.phase = "2"

-----------------------------------------------------------------------------
(* Properties of the page with the built-in data, under SpecEnhanced *)

\* handleQuery has run to its end
Finished == lastOp = "resume" /\ ~loading /\ queryInfo # <<>>

\* the canonical names of the tables in lexical order
LexicalOrder == <<"alopecia", "breast cancer", "dasatinib", "imatinib",
                  "jak2", "rituximab", "tp53">>

\* the names of the entries of a class that match q, in lexical order (all
\* matches have the same confidence)
RECURSIVE RankedNames(_, _, _)
RankedNames(q, class, k) ==
    IF k > Len(LexicalOrder) THEN <<>>
    ELSE IF \E i \in MatchingEntriesIn(q, class) :
                Tables[class][i].name = LexicalOrder[k]
         THEN <<LexicalOrder[k]>> \o RankedNames(q, class, k + 1)
         ELSE RankedNames(q, class, k + 1)

\* C6: when two entries of one class match the query, resolution halts with a
\* disambiguation request holding both candidates, ranked by confidence and
\* then by canonical name, and no results are produced by guessing one.
C6_AmbiguousQueryHalts ==
    Finished =>
        \A class \in DOMAIN Tables :
            LET q == queryInfo[1].parsed_query.original_query
            IN  Cardinality(MatchingEntriesIn(q, class)) >= 2 =>
                    /\ results = <<>>
                    /\ showSynonymPrompt
                    /\ [i \in 1..Len(synonymOptions) |-> synonymOptions[i].original]
                         = RankedNames(q, class, 1)

\* C10: "List diseases in Phase-2 for Imatinib" with source OpenTargets is
\* parsed to drug imatinib (CHEMBL941), phase "2" and intent list_diseases,
\* and the result holds a record with disease_name Chronic Myeloid Leukemia,
\* phase "2" and source OpenTargets.
C10_EndToEndImatinibPhase2 ==
    (/\ Finished
     /\ queryInfo[1].parsed_query.original_query = EXAMPLE_QUERIES[1]
     /\ queryInfo[1].databases_queried = <<"OpenTargets">>) =>
        LET pq == queryInfo[1].parsed_query
        IN  /\ DOMAIN pq.entities = {"drug", "phase"}
            /\ pq.entities.drug.name = "imatinib"
            /\ pq.entities.drug.chembl_id = "CHEMBL941"
            /\ pq.entities.phase = "2"
            /\ pq.intent = "list_diseases"
            /\ \E i \in 1..Len(results) :
                  /\ results[i].disease_name = "Chronic Myeloid Leukemia"
                  /\ results[i].phase = "2"
                  /\ results[i].source = "OpenTargets"

C10_Witness ==
    /\ Finished
    /\ queryInfo[1].parsed_query.original_query = "List diseases in Phase-2 for Imatinib"
    /\ queryInfo[1].databases_queried = <<"OpenTargets">>
    /\ Len(results) = 3
    /\ error = <<>>

\* the query of the finished run
FinishedQuery == queryInfo[1].parsed_query.original_query

\* C11: "List toxicities for Dasatinib" is classified list_toxicities and its
\* result holds a record with toxicity_type Pleural Effusion, severity
\* Grade 3 and frequency 28%.
C11_EndToEndDasatinibToxicities ==
    (Finished /\ FinishedQuery = EXAMPLE_QUERIES[2]) =>
        /\ queryInfo[1].parsed_query.intent = "list_toxicities"
        /\ \E i \in 1..Len(results) :
              /\ results[i].toxicity_type = "Pleural Effusion"
              /\ results[i].severity = "Grade 3"
              /\ results[i].frequency = "28%"

C11_Witness ==
    /\ Finished
    /\ FinishedQuery = "List toxicities for Dasatinib"
    /\ Len(results) > 0
    /\ results[1].drug = "Dasatinib"
    /\ error = <<>>

\* the toxicities of a result, as (type, severity, frequency)
ToxicitiesOf(rs) ==
    {<<rs[i].toxicity_type, rs[i].severity, rs[i].frequency>> : i \in 1..Len(rs)}

\* the expected results the README gives for "List toxicities for Dasatinib"
README_DASATINIB_TOXICITIES ==
    {<<"Pleural Effusion", "Grade 3", "28%">>,
     <<"Thrombocytopenia", "Grade 4", "15%">>,
     <<"Neutropenia", "Grade 3", "21%">>}

\* C12: "List toxicities for Dasatinib" returns the three toxicity records of
\* the README: Pleural Effusion (Grade 3, 28%), Thrombocytopenia (Grade 4,
\* 15%) and Neutropenia (Grade 3, 21%).
C12_DasatinibReadmeToxicities ==
    (Finished /\ FinishedQuery = EXAMPLE_QUERIES[2]) =>
        ToxicitiesOf(results) = README_DASATINIB_TOXICITIES

\* the keys every record of a list_diseases result holds
LIST_DISEASES_KEYS == {"disease_name", "phase", "evidence_score", "source"}

C16_RowsOfEverySource ==
    (Finished /\ Len(results) > 0) =>
        \A k \in 1..Len(queryInfo[1].databases_queried) :
            \E i \in 1..Len(results) :
                results[i].source = queryInfo[1].databases_queried[k]

\* no entry of a table and no phase expression matches q
NoEntityMatches(q) ==
    /\ \A class \in DOMAIN Tables : MatchingEntriesIn(q, class) = {}
    /\ ~PhasePatternOccurs(toLowerCase(q))

\* C20: a query that ends without results reports whether anything was
\* recognized: the recognized entities of the error are empty exactly when no
\* entity of any class matched, so NoResultsForResolvedQuery and
\* NoEntityRecognized differ in the terminal state.
C20_NoResultsCasesDiffer ==
    (Finished /\ Len(results) = 0) =>
        /\ error # <<>>
        /\ error[1].query = FinishedQuery
        /\ (DOMAIN error[1].recognized = {}) <=> NoEntityMatches(FinishedQuery)

C20_Witness ==
    /\ Finished
    /\ Len(results) = 0
    /\ FinishedQuery = "Show JAK2 expression"
    /\ DOMAIN error[1].recognized = {"target"}

\* C30: every record of a list_diseases result has the phase the text names
\* (the digits after phase, approved or preclinical), "2" when the text names
\* none, and as drug_id the ChEMBL identifier of the extracted drug, an entry
\* of the drug table that the text names.
C30_ListDiseasesPhaseAndDrugId ==
    (Finished /\ queryInfo[1].parsed_query.intent = "list_diseases"
              /\ Len(results) > 0) =>
        LET s == toLowerCase(FinishedQuery)
        IN  \A i \in 1..Len(results) :
               /\ IF PhasePatternOccurs(s)
                  THEN results[i].phase \in PhaseValues(s)
                  ELSE results[i].phase = "2"
               /\ results[i].drug_id
                     = queryInfo[1].parsed_query.entities.drug.chembl_id
               /\ \E e \in MatchingEntriesIn(FinishedQuery, "drug") :
                     results[i].drug_id = DRUG_SYNONYMS[e].chembl_id

C30_Witness ==
    /\ Finished
    /\ queryInfo[1].parsed_query.intent = "list_diseases"
    /\ Len(results) = 3
    /\ results[3].phase = "preclinical"
    /\ results[3].drug_id = "CHEMBL941"

-----------------------------------------------------------------------------
(* Properties of the page with the backend, under SpecBackend *)

\* C7: selecting a candidate of the prompt re-runs the query: after the
\* selection a query for the selected entry is in flight.
C7_SelectionRerunsQuery ==
    lastOp = "select" => (loading /\ pending # <<>>)

\* what the page displays about a query: the error banner, and the query
\* information shown with the results
StatusShown == error # <<>> \/ (Len(results) > 0 /\ queryInfo # <<>>)

C14_EveryQueryLeavesLoading == loading ~> ~loading

\* C21: every terminal state of a query holds what was recognized and which
\* sources were attempted: once handleQuery has finished, with results,
\* without, or with an error, queryInfo is set and holds the parsed query and
\* the databases queried.
C21_TerminalStateIsDiagnosable ==
    (lastOp = "resume" /\ ~loading) =>
        /\ queryInfo # <<>>
        /\ {"parsed_query", "databases_queried"} \subseteq DOMAIN queryInfo[1]

\* C24: when handleQuery goes on with a response, the prompt is opened, with
\* the entities of confidence below 0.8 as its options, exactly when the
\* response is ok, its data list is empty and one of its resolved entities has
\* a confidence below 0.8; any other response, one with records included,
\* leaves the prompt and its options as they were; and whenever
\* showSynonymPrompt is set the option list is not empty.
LowConfidence(r) ==
    IF r.query_info = <<>> \/ r.query_info[1].resolved = <<>> THEN {}
    ELSE {r.query_info[1].resolved[1][i] :
            i \in {j \in 1..Len(r.query_info[1].resolved[1]) :
                     r.query_info[1].resolved[1][j].confidence < CONFIDENCE_THRESHOLD}}

PromptTrigger(r) ==
    /\ r.ok
    /\ r.data # <<>>
    /\ Len(r.data[1]) = 0
    /\ LowConfidence(r) # {}

C24_PromptOpensExactlyOnEmptyAndAmbiguous ==
    /\ [](showSynonymPrompt => Len(synonymOptions) > 0)
    /\ [][(pending # <<>> /\ "response" \in DOMAIN pending[1] /\ pending' = <<>>)
            => IF PromptTrigger(pending[1].response)
               THEN /\ showSynonymPrompt'
                    /\ {synonymOptions'[i] : i \in 1..Len(synonymOptions')}
                          = LowConfidence(pending[1].response)
               ELSE UNCHANGED <<showSynonymPrompt, synonymOptions>>]_vars

C24_Witness ==
    /\ lastOp = "resume"
    /\ showSynonymPrompt
    /\ Len(results) = 0
    /\ error = <<>>
    /\ Len(synonymOptions) = 2

\* C26: once handleQuery has finished with an error, no records are on
\* display: the records of an earlier query (and, with them, its query
\* information) are not shown beside the error of the query that failed.
C26_NoStaleResultsBesideError ==
    (lastOp = "resume" /\ ~loading /\ error # <<>>) => Len(results) = 0

\* the records a response carries: those of its data list, none when the
\* request failed or the response has no data list
RecordsOf(r) == IF r.ok /\ r.data # <<>> THEN r.data[1] ELSE <<>>

\* C27: loading is set exactly while a handleQuery call is in flight, a call
\* starts only when none is in flight, and when a call ends the records on
\* display are those of its own response, that of the last query submitted.
C27_NoOverlapAndLastQueryShown ==
    /\ [](loading <=> pending # <<>>)
    /\ [][(pending' # pending /\ pending' # <<>>
              /\ "response" \notin DOMAIN pending'[1])
            => (~loading /\ pending = <<>> /\ loading')]_vars
    /\ [][(pending # <<>> /\ "response" \in DOMAIN pending[1] /\ pending' = <<>>)
            => results' = RecordsOf(pending[1].response)]_vars

\* the first two parts of C27 alone
C27_NoOverlap ==
    /\ [](loading <=> pending # <<>>)
    /\ [][(pending' # pending /\ pending' # <<>>
              /\ "response" \notin DOMAIN pending'[1])
            => (~loading /\ pending = <<>> /\ loading')]_vars

\* C29: when handleQuery goes on with an ok response that has no data list,
\* results become empty and no error is set.
C29_MissingDataListIsEmptyResult ==
    [][(/\ pending # <<>>
        /\ "response" \in DOMAIN pending[1]
        /\ pending[1].response.ok
        /\ pending[1].response.data = <<>>
        /\ pending' = <<>>)
       => (Len(results') = 0 /\ error' = <<>>)]_vars

-----------------------------------------------------------------------------
(* Properties of the source dispatch, under SpecDispatch *)

\* the sources of the gathered query with a given outcome
SourcesWith(o) == {s \in DOMAIN pending[1].outcome : pending[1].outcome[s] = o}

\* C13: when one of three selected sources times out, the records of the
\* other two are all in the final result, per_source_status records exactly
\* one timeout, and nothing of the query is reported as failed.
C13_DispatcherIndependence ==
    (/\ lastOp = "gather"
     /\ Len(pending[1].databases) = 3
     /\ Cardinality(SourcesWith("timeout")) = 1) =>
        LET status == queryInfo[1].per_source_status
        IN  /\ \A s \in SourcesWith("completed") :
                  \A j \in 1..Len(SourceRows(s)) :
                      \E i \in 1..Len(results) : results[i] = SourceRows(s)[j]
            /\ Cardinality({s \in DOMAIN status : status[s] = "error: timeout"}) = 1
            /\ \A s \in SourcesWith("completed") : status[s] = "ok"
            /\ error = <<>>

C13_Witness ==
    /\ lastOp = "gather"
    /\ Len(pending[1].databases) = 3
    /\ pending[1].outcome["ClinVar"] = "timeout"
    /\ Len(results) = 3
    /\ queryInfo[1].per_source_status["ClinVar"] = "error: timeout"

-----------------------------------------------------------------------------
(* Properties of Home of pages/index.js, under SpecSimple *)

\* C17: a query is submitted only with a text that is not blank and with at
\* least one database selected, all of them from the list of the form.
C17_SubmittedQueryIsValid ==
    lastOp = "submit" =>
        /\ trim(pending[1].query) # ""
        /\ Len(pending[1].databases) > 0
        /\ \A i \in 1..Len(pending[1].databases) :
               ArrIncludes(SIMPLE_DATABASES, pending[1].databases[i])

-----------------------------------------------------------------------------
(* Properties of ResultsTable, under SpecTable *)

\* the fields of all records
FieldsOf(data) == UNION {{data[i][j].k : j \in 1..Len(data[i])} : i \in 1..Len(data)}

\* C18: the columns of the table are the union of the fields of all records,
\* each once; in the column of a field a record lacks, the record shows the
\* absent marker "-", not zero, not an empty text and not the value of
\* another field; in the column of a field it holds, it shows that field.
C18_ColumnsAreUnionAbsentMarked ==
    rendered # <<>> =>
        LET cols == rendered[1].columns
            cells == rendered[1].rows
        IN  /\ {cols[j].accessor : j \in 1..Len(cols)} = FieldsOf(results)
            /\ Len(cols) = Cardinality(FieldsOf(results))
            /\ Len(cells) = Len(results)
            /\ \A i \in 1..Len(results) :
                  /\ Len(cells[i]) = Len(cols)
                  /\ \A j \in 1..Len(cols) :
                        LET key == cols[j].accessor
                            holds == \E f \in 1..Len(results[i]) : results[i][f].k = key
                        IN  IF ~holds
                            THEN cells[i][j] = [kind |-> "absent", text |-> "-"]
                            ELSE \E f \in 1..Len(results[i]) :
                                    /\ results[i][f].k = key
                                    /\ results[i][f].v = NullValue
                                          => cells[i][j].kind = "absent"
                                    /\ "str" \in DOMAIN results[i][f].v
                                          => /\ cells[i][j].kind # "absent"
                                             /\ cells[i][j].kind \in {"text", "phase"}
                                                   => cells[i][j].text = results[i][f].v.str
                                    /\ "num" \in DOMAIN results[i][f].v
                                          => /\ cells[i][j].kind = "number"
                                             /\ parseFloat(cells[i][j].text)
                                                   = <<results[i][f].v.num>>

C18_Witness ==
    /\ rendered # <<>>
    /\ Len(results) = 2
    /\ FieldsOf(<<results[1]>>) # FieldsOf(results)
    /\ FieldsOf(<<results[2]>>) # FieldsOf(results)
    /\ \E j \in 1..Len(rendered[1].columns) :
          /\ rendered[1].rows[1][j].kind = "absent"
          /\ rendered[1].rows[2][j].kind = "number"

\* a CSV text read back by the standard rules: cells are separated by commas
\* and lines by "\n" or "\r\n"; a cell in quotes may hold them, and a doubled
\* quote in it is one quote.

\* the end of the cell without quotes that starts at i: the position of the
\* comma or line break after it
RECURSIVE UnquotedEnd(_, _)
UnquotedEnd(text, i) ==
    IF i > Len(text) \/ SubSeq(text, i, i) \in {",", "\n", "\r"} THEN i
    ELSE UnquotedEnd(text, i + 1)

\* the position of the quote that closes the cell whose content starts at i
RECURSIVE ClosingQuote(_, _)
ClosingQuote(text, i) ==
    IF i > Len(text) THEN i
    ELSE IF SubSeq(text, i, i) = "\""
         THEN IF i < Len(text) /\ SubSeq(text, i + 1, i + 1) = "\""
              THEN ClosingQuote(text, i + 2) ELSE i
         ELSE ClosingQuote(text, i + 1)

RECURSIVE UndoubleQuotes(_)
UndoubleQuotes(s) ==
    IF Len(s) = 0 THEN ""
    ELSE IF Len(s) >= 2 /\ SubSeq(s, 1, 2) = "\"\""
         THEN "\"" \o UndoubleQuotes(SubSeq(s, 3, Len(s)))
         ELSE SubSeq(s, 1, 1) \o UndoubleQuotes(SubSeq(s, 2, Len(s)))

\* the lines of the text from position i on, row being the cells already read
\* of the current line
RECURSIVE ParseCSVFrom(_, _, _, _)
ParseCSVFrom(text, i, row, rows) ==
    LET quoted == i <= Len(text) /\ SubSeq(text, i, i) = "\""
        e == IF quoted THEN ClosingQuote(text, i + 1) + 1 ELSE UnquotedEnd(text, i)
        cell == IF quoted THEN UndoubleQuotes(SubSeq(text, i + 1, e - 2))
                ELSE SubSeq(text, i, e - 1)
        sep == IF e <= Len(text) THEN SubSeq(text, e, e) ELSE ""
    IN  IF e > Len(text) THEN Append(rows, Append(row, cell))
        ELSE IF sep = ","
        THEN ParseCSVFrom(text, e + 1, Append(row, cell), rows)
        ELSE ParseCSVFrom(text,
                 IF sep = "\r" /\ e < Len(text) /\ SubSeq(text, e + 1, e + 1) = "\n"
                 THEN e + 2 ELSE e + 1,
                 <<>>, Append(rows, Append(row, cell)))

ParseCSV(text) == ParseCSVFrom(text, 1, <<>>, <<>>)

\* C19: the exported CSV is lossless: its header is the union of the fields
\* of all records, each once; every line has as many cells as the header; a
\* field a record lacks is an empty cell; and read back by the CSV rules
\* every cell is the value of its field, commas, quotes and line breaks
\* included.
C19_ExportIsLossless ==
    (lastOp = "export" /\ csv # <<>>) =>
        LET lines == ParseCSV(csv[1])
            header == lines[1]
        IN  /\ {header[j] : j \in 1..Len(header)} = FieldsOf(results)
            /\ Len(header) = Cardinality(FieldsOf(results))
            /\ Len(lines) = Len(results) + 1
            /\ \A i \in 1..Len(results) :
                  /\ Len(lines[i + 1]) = Len(header)
                  /\ \A j \in 1..Len(header) :
                        lines[i + 1][j] = ToText(Get(results[i], header[j]))

-----------------------------------------------------------------------------
(* Properties of the QueryForm component, under SpecForm *)

\* C23: after any sequence of toggles, Select All and Clear at least one
\* database is selected; a toggle on a selection of one either adds the other
\* database or leaves the selection as it is; and Clear sets the selection to
\* exactly OpenTargets.
C23_AtLeastOneDatabaseSelected ==
    /\ [](Len(selectedDatabases) >= 1)
    /\ [](lastOp = "clear" => selectedDatabases = <<"OpenTargets">>)
    /\ [][(lastOp' = "toggle" /\ Len(selectedDatabases) = 1)
            => \/ selectedDatabases' = selectedDatabases
               \/ /\ Len(selectedDatabases') = 2
                  /\ selectedDatabases'[1] = selectedDatabases[1]
                  /\ selectedDatabases'[2] # selectedDatabases[1]]_vars

C23_Witness ==
    /\ lastOp = "toggle"
    /\ selectedDatabases = <<"ClinicalTrials.gov">>

\* C25: after any sequence of toggles, Select All and Clear the selected
\* databases are among AVAILABLE_DATABASES and none is selected twice.
C25_SelectionIsSubsetWithoutDuplicates ==
    /\ \A i \in 1..Len(selectedDatabases) :
          ArrIncludes(AVAILABLE_DATABASES, selectedDatabases[i])
    /\ \A i, j \in 1..Len(selectedDatabases) :
          selectedDatabases[i] = selectedDatabases[j] => i = j

C25_Witness ==
    /\ lastOp = "toggle"
    /\ Len(selectedDatabases) = Len(AVAILABLE_DATABASES)
    /\ selectedDatabases[Len(selectedDatabases)] = "OpenTargets"

-----------------------------------------------------------------------------
(* Properties of the Visualizations component, under SpecCharts *)

\* C28: whenever results holds records the component is mounted, its chart
\* container holds a chart and that chart has data: the active chart type is
\* never one without chart data.
C28_ActiveChartHasData ==
    Len(results) > 0 =>
        /\ activeChart # <<>>
        /\ ChartContainer(activeChart, results, queryInfo) # <<>>
        /\ Len(ChartContainer(activeChart, results, queryInfo)[1].data) > 0

====
